---- MODULE Spec2Model ----
(***************************************************************************)
(* Expense-Tracker.py as a state machine: the in-memory DataFrame held by  *)
(* main(), the file expenses.csv, and the position of the interactive      *)
(* program (menu prompt, amount prompt, exited, crashed).                  *)
(*                                                                         *)
(* Text is a sequence of character codes, so strip(), float(), the date    *)
(* parser and the CSV formatter are computed and not assumed.  An Amount   *)
(* is held in tenths (10.0 is 100); amount texts carry at most one         *)
(* fractional digit, and binary rounding of floats is outside the model.   *)
(* The CSV layer is modelled at the level of fields: the texts used hold   *)
(* no delimiter, quote or newline, so quoting never applies.  A plot is    *)
(* modelled by the totals it is given; the drawing is not.                 *)
(*                                                                         *)
(*   pc          "menu" (at the menu prompt), "amount" (in add_expense's   *)
(*               amount loop), "exited" (after choice 0), "crashed" (an    *)
(*               exception left main)                                      *)
(*   df          the DataFrame main() holds                                *)
(*   file        expenses.csv                                              *)
(*   pending     date_str, category, description of the add under way      *)
(*   out         what the program printed or plotted last                  *)
(*   strictDates whether the installed pandas requires one layout for all  *)
(*               date texts of a column (2.x) or parses each on its own    *)
(*               (1.x); fixed for a whole behaviour                        *)
(***************************************************************************)
EXTENDS Integers, Sequences, FiniteSets, TLC

VARIABLES pc, df, file, pending, out, strictDates

vars == <<pc, df, file, pending, out, strictDates>>

(* Largest number of records the table is allowed to grow to. *)
MaxRows == 2

----------------------------------------------------------------------------
(* Text helpers (Python str)                                               *)

RECURSIVE LStrip(_)
LStrip(s) == IF s # <<>> /\ Head(s) = 32 THEN LStrip(Tail(s)) ELSE s

RECURSIVE RStrip(_)
RStrip(s) ==
  IF s # <<>> /\ s[Len(s)] = 32 THEN RStrip(SubSeq(s, 1, Len(s) - 1)) ELSE s

(* str.strip(): leading and trailing blanks removed *)
strip(s) == RStrip(LStrip(s))

IsDigits(s) == s # <<>> /\ \A i \in 1..Len(s) : s[i] \in 48..57

RECURSIVE DigitsVal(_)
DigitsVal(s) ==
  IF s = <<>> THEN 0
  ELSE 10 * DigitsVal(SubSeq(s, 1, Len(s) - 1)) + (s[Len(s)] - 48)

RECURSIVE Digits(_)
Digits(n) == IF n < 10 THEN <<48 + n>> ELSE Digits(n \div 10) \o <<48 + (n % 10)>>

RECURSIVE Pad(_, _)
Pad(s, w) == IF Len(s) >= w THEN s ELSE Pad(<<48>> \o s, w)

(* lexicographic order on text, by character code (case-sensitive) *)
RECURSIVE TextLess(_, _)
TextLess(a, b) ==
  IF b = <<>> THEN FALSE
  ELSE IF a = <<>> THEN TRUE
  ELSE IF Head(a) # Head(b) THEN Head(a) < Head(b)
  ELSE TextLess(Tail(a), Tail(b))

----------------------------------------------------------------------------
(* Cells of a DataFrame                                                    *)

Str(s)       == [t |-> "str", s |-> s]
Float(v)     == [t |-> "float", v |-> v]
NaN          == [t |-> "nan"]
NaT          == [t |-> "nat"]
Ts(y, m, d)  == [t |-> "ts", y |-> y, m |-> m, d |-> d]
Period(y, m) == [t |-> "period", y |-> y, m |-> m]

IsNull(c) == c.t \in {"nan", "nat"}

----------------------------------------------------------------------------
(* float(text): blanks stripped, optional sign, digits, optional fraction. *)
(* [ok |-> FALSE] stands for ValueError.                                   *)

Unsigned(s) ==
  LET dot == {i \in 1..Len(s) : s[i] = 46} IN
  IF dot = {} THEN
    IF IsDigits(s) THEN [ok |-> TRUE, v |-> 10 * DigitsVal(s)] ELSE [ok |-> FALSE]
  ELSE
    LET i  == CHOOSE j \in dot : \A k \in dot : j <= k
        ip == SubSeq(s, 1, i - 1)
        fp == SubSeq(s, i + 1, Len(s))
    IN IF /\ Cardinality(dot) = 1
          /\ (ip = <<>> \/ IsDigits(ip))
          /\ (fp = <<>> \/ IsDigits(fp))
          /\ ~(ip = <<>> /\ fp = <<>>)
          /\ Len(fp) <= 1
       THEN [ok |-> TRUE, v |-> 10 * DigitsVal(ip) + DigitsVal(fp)]
       ELSE [ok |-> FALSE]

float(text) ==
  LET s == strip(text) IN
  IF s = <<>> THEN [ok |-> FALSE]
  ELSE IF Head(s) = 45 THEN
    LET u == Unsigned(Tail(s)) IN
    IF u.ok THEN [ok |-> TRUE, v |-> 0 - u.v] ELSE u
  ELSE IF Head(s) = 43 THEN Unsigned(Tail(s))
  ELSE Unsigned(s)

(* repr of a float, as to_csv writes it: 10.0, -2.5 *)
FormatFloat(v) ==
  LET a == IF v < 0 THEN 0 - v ELSE v IN
  (IF v < 0 THEN <<45>> ELSE <<>>) \o Digits(a \div 10) \o <<46>> \o Digits(a % 10)

----------------------------------------------------------------------------
(* Dates                                                                   *)

DaysIn(y, m) ==
  IF m \in {4, 6, 9, 11} THEN 30
  ELSE IF m = 2 THEN (IF (y % 4 = 0 /\ y % 100 # 0) \/ y % 400 = 0 THEN 29 ELSE 28)
  ELSE 31

MidnightText == <<32, 48, 48, 58, 48, 48, 58, 48, 48>>

IsDateText(s) ==
  /\ Len(s) = 10
  /\ s[5] = 45 /\ s[8] = 45
  /\ IsDigits(SubSeq(s, 1, 4)) /\ IsDigits(SubSeq(s, 6, 7)) /\ IsDigits(SubSeq(s, 9, 10))
  /\ LET y == DigitsVal(SubSeq(s, 1, 4))
         m == DigitsVal(SubSeq(s, 6, 7))
         d == DigitsVal(SubSeq(s, 9, 10))
     IN m \in 1..12 /\ d \in 1..DaysIn(y, m)

(* the layout of a date text: "date" (YYYY-MM-DD), "datetime" (YYYY-MM-DD  *)
(* 00:00:00) or "none" when it is neither                                  *)
DateFormat(s) ==
  IF IsDateText(s) THEN "date"
  ELSE IF Len(s) = 19 /\ IsDateText(SubSeq(s, 1, 10)) /\ SubSeq(s, 11, 19) = MidnightText
       THEN "datetime"
  ELSE "none"

ParseDate(s) ==
  Ts(DigitsVal(SubSeq(s, 1, 4)), DigitsVal(SubSeq(s, 6, 7)), DigitsVal(SubSeq(s, 9, 10)))

FormatDate(c) ==
  Pad(Digits(c.y), 4) \o <<45>> \o Pad(Digits(c.m), 2) \o <<45>> \o Pad(Digits(c.d), 2)

FormatPeriod(c) == Pad(Digits(c.y), 4) \o <<45>> \o Pad(Digits(c.m), 2)

----------------------------------------------------------------------------
(* DataFrame: column names, one dtype per column, rows of cells            *)

COLUMNS == <<"Date", "Category", "Description", "Amount">>

(* pd.DataFrame(columns=COLUMNS) *)
EmptyFrame ==
  [cols |-> COLUMNS, dtypes |-> [j \in 1..Len(COLUMNS) |-> "object"], rows |-> <<>>]

HasCol(d, name) == \E j \in 1..Len(d.cols) : d.cols[j] = name

ColIndex(cols, name) == CHOOSE j \in 1..Len(cols) : cols[j] = name

(* d[name] *)
Column(d, name) == [r \in 1..Len(d.rows) |-> d.rows[r][ColIndex(d.cols, name)]]

(* d.empty *)
empty(d) == Len(d.rows) = 0 \/ Len(d.cols) = 0

(* d[name] = vals: an existing column is replaced in place, a new one is   *)
(* appended as the last column                                             *)
SetColumn(d, name, dtype, vals) ==
  IF HasCol(d, name) THEN
    LET k == ColIndex(d.cols, name) IN
    [cols   |-> d.cols,
     dtypes |-> [d.dtypes EXCEPT ![k] = dtype],
     rows   |-> [r \in 1..Len(d.rows) |-> [d.rows[r] EXCEPT ![k] = vals[r]]]]
  ELSE
    [cols   |-> Append(d.cols, name),
     dtypes |-> Append(d.dtypes, dtype),
     rows   |-> [r \in 1..Len(d.rows) |-> Append(d.rows[r], vals[r])]]

(* the missing-value marker of a dtype *)
NA(dtype) == IF dtype \in {"datetime64", "period"} THEN NaT ELSE NaN

(* pd.concat([a, b], ignore_index=True): the union of the columns in order *)
(* of appearance, a's rows then b's rows, a column one frame lacks filled  *)
(* with the missing-value marker; a frame without rows does not take part  *)
(* in the choice of a column's dtype                                       *)
concat(a, b) ==
  LET extra == SelectSeq(b.cols, LAMBDA c : ~HasCol(a, c))
      cols  == a.cols \o extra
      dt(c) ==
        IF HasCol(a, c) /\ HasCol(b, c) THEN
          LET da == a.dtypes[ColIndex(a.cols, c)]
              db == b.dtypes[ColIndex(b.cols, c)]
          IN IF Len(a.rows) = 0 THEN db
             ELSE IF Len(b.rows) = 0 \/ da = db THEN da
             ELSE "object"
        ELSE IF HasCol(a, c) THEN a.dtypes[ColIndex(a.cols, c)]
        ELSE b.dtypes[ColIndex(b.cols, c)]
      cell(f, r, c) ==
        IF HasCol(f, c) THEN f.rows[r][ColIndex(f.cols, c)] ELSE NA(dt(c))
      widen(f) == [r \in 1..Len(f.rows) |-> [j \in 1..Len(cols) |-> cell(f, r, cols[j])]]
  IN [cols   |-> cols,
      dtypes |-> [j \in 1..Len(cols) |-> dt(cols[j])],
      rows   |-> widen(a) \o widen(b)]

----------------------------------------------------------------------------
(* The file expenses.csv: absent, or a header row and rows of field texts  *)

NoFile == [exists |-> FALSE, header |-> <<>>, rows |-> <<>>]

(* how to_csv writes one cell of a column of the given dtype: a missing    *)
(* value as the empty field, a Timestamp of a datetime64 column as its     *)
(* date, a Timestamp held in an object column through str()                *)
FormatCell(c, dtype) ==
  CASE c.t = "str"    -> c.s
    [] c.t = "float"  -> FormatFloat(c.v)
    [] c.t = "nan"    -> <<>>
    [] c.t = "nat"    -> <<>>
    [] c.t = "ts"     -> IF dtype = "datetime64" THEN FormatDate(c)
                         ELSE FormatDate(c) \o MidnightText
    [] c.t = "period" -> FormatPeriod(c)

(* d.to_csv(DATA_FILE, index=False) *)
to_csv(d) ==
  [exists |-> TRUE,
   header |-> d.cols,
   rows   |-> [r \in 1..Len(d.rows) |->
                 [j \in 1..Len(d.cols) |-> FormatCell(d.rows[r][j], d.dtypes[j])]]]

(* read_csv's type inference for one column: a column whose non-empty      *)
(* fields are all numbers is float64, any other is object and keeps the    *)
(* text; an empty field is NaN in both                                     *)
InferColumn(texts) ==
  IF Len(texts) > 0 /\ \A i \in 1..Len(texts) : texts[i] = <<>> \/ float(texts[i]).ok
  THEN [dtype |-> "float64",
        vals  |-> [i \in 1..Len(texts) |->
                     IF texts[i] = <<>> THEN NaN ELSE Float(float(texts[i]).v)]]
  ELSE [dtype |-> "object",
        vals  |-> [i \in 1..Len(texts) |->
                     IF texts[i] = <<>> THEN NaN ELSE Str(texts[i])]]

(* pd.read_csv(DATA_FILE) *)
read_csv(f) ==
  LET col(j) == InferColumn([r \in 1..Len(f.rows) |-> f.rows[r][j]]) IN
  [cols   |-> f.header,
   dtypes |-> [j \in 1..Len(f.header) |-> col(j).dtype],
   rows   |-> [r \in 1..Len(f.rows) |-> [j \in 1..Len(f.header) |-> col(j).vals[r]]]]

load_expenses(f) == IF f.exists THEN read_csv(f) ELSE EmptyFrame

save_expenses(d) == to_csv(d)

----------------------------------------------------------------------------
(* Aggregation                                                             *)

(* pd.to_datetime(values).  A text is parsed, a Timestamp kept, a missing  *)
(* value becomes NaT.  With strict set (pandas 2 and later) the layout is  *)
(* taken from the first non-missing value when that is a text, and every   *)
(* text must then have that layout; without it (pandas 1) each text is     *)
(* parsed on its own.  [ok |-> FALSE] stands for the ValueError raised.    *)
(* Numbers in a Date column do not arise from the inputs used here.        *)
to_datetime(vals, strict) ==
  LET n       == Len(vals)
      nonnull == {i \in 1..n : ~IsNull(vals[i])}
      first   == CHOOSE i \in nonnull : \A k \in nonnull : i <= k
      guessed == IF strict /\ nonnull # {} /\ vals[first].t = "str"
                 THEN DateFormat(vals[first].s) ELSE "none"
      okAt(i) == CASE vals[i].t = "str" ->
                        /\ DateFormat(vals[i].s) # "none"
                        /\ (guessed = "none" \/ DateFormat(vals[i].s) = guessed)
                   [] vals[i].t \in {"ts", "nan", "nat"} -> TRUE
                   [] OTHER -> FALSE
      conv(i) == CASE vals[i].t = "str" -> ParseDate(vals[i].s)
                   [] vals[i].t = "ts"  -> vals[i]
                   [] OTHER -> NaT
  IN IF \A i \in 1..n : okAt(i)
     THEN [ok |-> TRUE, vals |-> [i \in 1..n |-> conv(i)]]
     ELSE [ok |-> FALSE]

(* Series.dt.to_period("M") *)
to_period(c) == IF c.t = "ts" THEN Period(c.y, c.m) ELSE NaT

(* the order groupby sorts its keys in *)
KeyLess(a, b) ==
  CASE a.t = "str"    -> TextLess(a.s, b.s)
    [] a.t = "ts"     -> \/ a.y < b.y
                         \/ a.y = b.y /\ a.m < b.m
                         \/ a.y = b.y /\ a.m = b.m /\ a.d < b.d
    [] a.t = "period" -> a.y < b.y \/ (a.y = b.y /\ a.m < b.m)
    [] a.t = "float"  -> a.v < b.v

RECURSIVE SortKeys(_)
SortKeys(S) ==
  IF S = {} THEN <<>>
  ELSE LET m == CHOOSE x \in S : \A y \in S \ {x} : KeyLess(x, y)
       IN <<m>> \o SortKeys(S \ {m})

(* the number an Amount cell adds to a sum (a missing Amount is skipped) *)
AmountOf(c) == IF c.t = "float" THEN c.v ELSE 0

RECURSIVE SumAt(_, _)
SumAt(amounts, I) ==
  IF I = {} THEN 0
  ELSE LET i == CHOOSE k \in I : TRUE
       IN AmountOf(amounts[i]) + SumAt(amounts, I \ {i})

(* d.groupby(key)["Amount"].sum(): one group per distinct non-missing key  *)
(* (rows whose key is missing are dropped), keys in sorted order           *)
groupby_sum(d, key) ==
  LET ks   == Column(d, key)
      am   == Column(d, "Amount")
      keys == SortKeys({ks[i] : i \in {k \in DOMAIN ks : ~IsNull(ks[k])}})
  IN [g \in 1..Len(keys) |->
        [key |-> keys[g], total |-> SumAt(am, {i \in DOMAIN ks : ks[i] = keys[g]})]]

(* insertion of e into a series sorted by falling total, after its equals *)
InsertDesc(e, s) ==
  LET k == Cardinality({i \in 1..Len(s) : s[i].total >= e.total})
  IN SubSeq(s, 1, k) \o <<e>> \o SubSeq(s, k + 1, Len(s))

(* Series.sort_values(ascending=False); the order among equal totals is    *)
(* taken to be the one of the input                                        *)
RECURSIVE sort_values(_)
sort_values(s) ==
  IF s = <<>> THEN <<>>
  ELSE InsertDesc(s[Len(s)], sort_values(SubSeq(s, 1, Len(s) - 1)))

(* n / d rounded to the nearest integer (format .2f of the mean, which is  *)
(* kept in hundredths)                                                     *)
RoundDiv(n, d) ==
  IF n >= 0 THEN (2 * n + d) \div (2 * d) ELSE 0 - ((2 * (0 - n) + d) \div (2 * d))

(* Each handler yields the table it leaves behind, what it shows, and      *)
(* whether an exception left it (raised).                                  *)

(* the month written into the Date column instead of a column of its own *)
monthly_summary_in_date(d, strict) ==
  IF empty(d) THEN [raised |-> FALSE, df |-> d, out |-> [msg |-> "No data available for summary."]]
  ELSE
    LET conv == to_datetime(Column(d, "Date"), strict) IN
    IF ~conv.ok THEN [raised |-> TRUE, df |-> d, out |-> [msg |-> "ValueError"]]
    ELSE
      LET d2 == SetColumn(d, "Date", "period",
                          [i \in 1..Len(conv.vals) |-> to_period(conv.vals[i])])
          am == Column(d2, "Amount")
          n  == Len(am)
          sm == SumAt(am, 1..n)
      IN [raised |-> FALSE,
          df     |-> d2,
          out    |-> [msg    |-> "Monthly Spending",
                      totals |-> groupby_sum(d2, "Date"),
                      total  |-> sm,
                      mean   |-> RoundDiv(10 * sm, n),
                      max    |-> CHOOSE v \in {AmountOf(am[i]) : i \in 1..n} :
                                   \A i \in 1..n : AmountOf(am[i]) <= v,
                      min    |-> CHOOSE v \in {AmountOf(am[i]) : i \in 1..n} :
                                   \A i \in 1..n : AmountOf(am[i]) >= v]]

monthly_summary(d, strict) ==
  IF empty(d) THEN [raised |-> FALSE, df |-> d, out |-> [msg |-> "No data available for summary."]]
  ELSE
    LET conv == to_datetime(Column(d, "Date"), strict) IN
    IF ~conv.ok THEN [raised |-> TRUE, df |-> d, out |-> [msg |-> "ValueError"]]
    ELSE
      LET d1 == SetColumn(d, "Date", "datetime64", conv.vals)
          d2 == SetColumn(d1, "YearMonth", "period",
                          [i \in 1..Len(conv.vals) |-> to_period(conv.vals[i])])
          am == Column(d2, "Amount")
          n  == Len(am)
          sm == SumAt(am, 1..n)
      IN [raised |-> FALSE,
          df     |-> d2,
          out    |-> [msg    |-> "Monthly Spending",
                      totals |-> groupby_sum(d2, "YearMonth"),
                      total  |-> sm,
                      mean   |-> RoundDiv(10 * sm, n),
                      max    |-> CHOOSE v \in {AmountOf(am[i]) : i \in 1..n} :
                                   \A i \in 1..n : AmountOf(am[i]) <= v,
                      min    |-> CHOOSE v \in {AmountOf(am[i]) : i \in 1..n} :
                                   \A i \in 1..n : AmountOf(am[i]) >= v]]

(* the category totals left in the order groupby gives them *)
plot_by_category_unsorted(d) ==
  IF empty(d) THEN [raised |-> FALSE, df |-> d, out |-> [msg |-> "No data to plot."]]
  ELSE [raised |-> FALSE,
        df     |-> d,
        out    |-> [msg    |-> "Expenses by Category",
                    totals |-> groupby_sum(d, "Category")]]

plot_by_category(d) ==
  IF empty(d) THEN [raised |-> FALSE, df |-> d, out |-> [msg |-> "No data to plot."]]
  ELSE [raised |-> FALSE,
        df     |-> d,
        out    |-> [msg    |-> "Expenses by Category",
                    totals |-> sort_values(groupby_sum(d, "Category"))]]

plot_daily_trend(d, strict) ==
  IF empty(d) THEN [raised |-> FALSE, df |-> d, out |-> [msg |-> "No data to plot."]]
  ELSE
    LET conv == to_datetime(Column(d, "Date"), strict) IN
    IF ~conv.ok THEN [raised |-> TRUE, df |-> d, out |-> [msg |-> "ValueError"]]
    ELSE
      LET d1 == SetColumn(d, "Date", "datetime64", conv.vals)
      IN [raised |-> FALSE,
          df     |-> d1,
          out    |-> [msg |-> "Daily Expense Trend", totals |-> groupby_sum(d1, "Date")]]

(* the default of view_expenses' parameter n *)
ViewCount == 10

view_expenses(d) ==
  IF empty(d) THEN [msg |-> "No expenses recorded yet."]
  ELSE [msg  |-> "Last expenses",
        rows |-> SubSeq(d.rows, IF Len(d.rows) > ViewCount THEN Len(d.rows) - ViewCount + 1 ELSE 1,
                        Len(d.rows))]

----------------------------------------------------------------------------
(* Inputs typed at the prompts                                             *)

(* datetime.today().strftime("%Y-%m-%d"): 2024-01-20 *)
Today == <<50, 48, 50, 52, 45, 48, 49, 45, 50, 48>>

(* " " (blank), " 2024-02-01", "x" (no date) *)
DateInputs ==
  { <<32>>,
    <<32, 50, 48, 50, 52, 45, 48, 50, 45, 48, 49>>,
    <<120>> }

(* "", "f " *)
CategoryInputs == { <<>>, <<102, 32>> }

(* "L" *)
DescriptionInputs == { <<76>> }

(* "abc", "", "10", "-2.5" *)
AmountInputs == { <<97, 98, 99>>, <<>>, <<49, 48>>, <<45, 50, 46, 53>> }

(* "0" .. "5", "9", " 3 " *)
MenuInputs == { <<48 + k>> : k \in 0..5 } \cup { <<57>>, <<32, 51, 32>> }

Key(k) == <<48 + k>>

(* a file as the program writes it for the one record                      *)
(* 2024-01-05, F, L, 2.5                                                   *)
SampleFile ==
  [exists |-> TRUE,
   header |-> COLUMNS,
   rows   |-> << << <<50, 48, 50, 52, 45, 48, 49, 45, 48, 53>>, <<70>>, <<76>>,
                    <<50, 46, 53>> >> >>]

NoPending == [date_str |-> <<>>, category |-> <<>>, description |-> <<>>]

----------------------------------------------------------------------------
(* add_expense                                                             *)

(* the three prompts before the amount loop *)
Collect(date_in, cat_in, desc_in) ==
  [date_str    |-> IF strip(date_in) = <<>> THEN Today ELSE strip(date_in),
   category    |-> strip(cat_in),
   description |-> strip(desc_in)]

(* pd.DataFrame([new_row]) *)
new_row(p, amount) ==
  [cols   |-> COLUMNS,
   dtypes |-> <<"object", "object", "object", "float64">>,
   rows   |-> << <<Str(p.date_str), Str(p.category), Str(p.description), Float(amount)>> >>]

(* the new row put before the table instead of after it *)
AppendedFirst(d, p, amount) == concat(new_row(p, amount), d)

(* the table add_expense returns and saves *)
Appended(d, p, amount) == concat(d, new_row(p, amount))

----------------------------------------------------------------------------
(* The program                                                             *)

Init ==
  /\ strictDates \in BOOLEAN
  /\ file \in {NoFile, SampleFile}
  /\ df = load_expenses(file)
  /\ pc = "menu"
  /\ pending = NoPending
  /\ out = [msg |-> "==== Expense Tracker ===="]

(* choice 1: the date, category and description prompts *)
Add ==
  /\ pc = "menu"
  /\ Len(df.rows) < MaxRows
  /\ \E i \in MenuInputs, dt \in DateInputs, c \in CategoryInputs, ds \in DescriptionInputs :
       /\ strip(i) = Key(1)
       /\ pending' = Collect(dt, c, ds)
  /\ pc' = "amount"
  /\ out' = [msg |-> "Amount: "]
  /\ UNCHANGED <<df, file, strictDates>>

(* the amount loop left on ValueError with an amount of 0 *)
AmountRejectedAppends ==
  /\ pc = "amount"
  /\ \E a \in AmountInputs : ~float(a).ok
  /\ df' = Appended(df, pending, 0)
  /\ file' = save_expenses(df')
  /\ out' = [msg |-> "Please enter a valid number for amount."]
  /\ UNCHANGED <<pc, pending, strictDates>>

(* the amount loop: float() raised ValueError, the prompt is repeated *)
AmountRejected ==
  /\ pc = "amount"
  /\ \E a \in AmountInputs : ~float(a).ok
  /\ out' = [msg |-> "Please enter a valid number for amount."]
  /\ UNCHANGED <<pc, df, file, pending, strictDates>>

(* the amount loop left: the row is appended and the table saved *)
AmountAccepted ==
  /\ pc = "amount"
  /\ \E a \in AmountInputs :
       /\ float(a).ok
       /\ df' = Appended(df, pending, float(a).v)
  /\ file' = save_expenses(df')
  /\ pc' = "menu"
  /\ pending' = NoPending
  /\ out' = [msg |-> "Expense added successfully!"]
  /\ UNCHANGED strictDates

(* choice 2 *)
View ==
  /\ pc = "menu"
  /\ \E i \in MenuInputs : strip(i) = Key(2)
  /\ out' = view_expenses(df)
  /\ UNCHANGED <<pc, df, file, pending, strictDates>>

(* the state a handler that mutates the caller's table leaves behind *)
Handled(r) ==
  /\ df' = r.df
  /\ out' = r.out
  /\ pc' = IF r.raised THEN "crashed" ELSE "menu"
  /\ UNCHANGED <<file, pending, strictDates>>

(* choice 3 *)
Monthly ==
  /\ pc = "menu"
  /\ \E i \in MenuInputs : strip(i) = Key(3)
  /\ Handled(monthly_summary(df, strictDates))

(* choice 4 *)
Category ==
  /\ pc = "menu"
  /\ \E i \in MenuInputs : strip(i) = Key(4)
  /\ Handled(plot_by_category(df))

(* choice 5 *)
Daily ==
  /\ pc = "menu"
  /\ \E i \in MenuInputs : strip(i) = Key(5)
  /\ Handled(plot_daily_trend(df, strictDates))

(* choice 0 *)
Exit ==
  /\ pc = "menu"
  /\ \E i \in MenuInputs : strip(i) = Key(0)
  /\ pc' = "exited"
  /\ out' = [msg |-> "Goodbye!"]
  /\ UNCHANGED <<df, file, pending, strictDates>>

(* the else branch leaving the loop *)
InvalidExits ==
  /\ pc = "menu"
  /\ \E i \in MenuInputs :
       strip(i) \notin {Key(k) : k \in 0..5}
  /\ pc' = "exited"
  /\ out' = [msg |-> "Invalid choice, please try again."]
  /\ UNCHANGED <<df, file, pending, strictDates>>

(* any other choice *)
Invalid ==
  /\ pc = "menu"
  /\ \E i \in MenuInputs :
       strip(i) \notin {Key(k) : k \in 0..5}
  /\ out' = [msg |-> "Invalid choice, please try again."]
  /\ UNCHANGED <<pc, df, file, pending, strictDates>>

(* the program is run again after it ended: main() loads the file *)
Relaunch ==
  /\ pc \in {"exited", "crashed"}
  /\ df' = load_expenses(file)
  /\ pc' = "menu"
  /\ pending' = NoPending
  /\ out' = [msg |-> "==== Expense Tracker ===="]
  /\ UNCHANGED <<file, strictDates>>

Next ==
  \/ Add
  \/ AmountRejected
  \/ AmountAccepted
  \/ View
  \/ Monthly
  \/ Category
  \/ Daily
  \/ Exit
  \/ Invalid
  \/ Relaunch

Spec == Init /\ [][Next]_vars

----------------------------------------------------------------------------
(* Properties                                                              *)

Cell(d, r, name) == d.rows[r][ColIndex(d.cols, name)]

RECURSIVE SumTotals(_)
SumTotals(s) == IF s = <<>> THEN 0 ELSE Head(s).total + SumTotals(Tail(s))

(* what summary k (3 monthly, 4 category, 5 daily) does on table d *)
Run(k, d, strict) ==
  CASE k = 3 -> monthly_summary(d, strict)
    [] k = 4 -> plot_by_category(d)
    [] k = 5 -> plot_daily_trend(d, strict)

(* every record has its four fields present and its Date is a Timestamp   *)
(* or a text YYYY-MM-DD                                                    *)
WellFormed(d) ==
  \A r \in 1..Len(d.rows) :
    /\ \A j \in 1..Len(COLUMNS) : ~IsNull(Cell(d, r, COLUMNS[j]))
    /\ LET c == Cell(d, r, "Date")
       IN c.t = "ts" \/ (c.t = "str" /\ DateFormat(c.s) = "date")

(* C1: a monthly, category or daily summary leaves the table held by the   *)
(* menu loop as it was: same columns, same records, same field values.     *)
C1_SummariesLeaveTable == [][(Monthly \/ Category \/ Daily) => df' = df]_vars

(* C2: the file, whenever it has been written, has the header              *)
(* Date,Category,Description,Amount and four fields in every record row.   *)
C2_FileSchema ==
  file.exists =>
    /\ file.header = COLUMNS
    /\ \A r \in 1..Len(file.rows) : Len(file.rows[r]) = Len(COLUMNS)

(* C3, as claimed: the record an add appends carries the Date, Category    *)
(* and Description exactly as they were typed (a blank Date replaced by    *)
(* the current date).                                                      *)
C3_FieldsAsTyped ==
  [][AmountAccepted =>
       \E dt \in DateInputs, c \in CategoryInputs, ds \in DescriptionInputs :
         LET n == Len(df'.rows) IN
         /\ Cell(df', n, "Date") = Str(IF strip(dt) = <<>> THEN Today ELSE dt)
         /\ Cell(df', n, "Category") = Str(c)
         /\ Cell(df', n, "Description") = Str(ds)]_vars

(* C3, amended: an add makes the table one record longer, the new record   *)
(* is the last one, its Date, Category and Description are the typed texts *)
(* with leading and trailing blanks stripped (a Date blank after stripping *)
(* replaced by the current date), its Amount is the number the amount text *)
(* parses to, and the records held before are unchanged and in order.      *)
C3_AddAppendsStripped ==
  [][/\ Add =>
          \E dt \in DateInputs, c \in CategoryInputs, ds \in DescriptionInputs :
            pending' = [date_str    |-> IF strip(dt) = <<>> THEN Today ELSE strip(dt),
                        category    |-> strip(c),
                        description |-> strip(ds)]
     /\ AmountAccepted =>
          LET n == Len(df.rows) IN
          /\ Len(df'.rows) = n + 1
          /\ df'.cols = df.cols
          /\ SubSeq(df'.rows, 1, n) = df.rows
          /\ Cell(df', n + 1, "Date") = Str(pending.date_str)
          /\ Cell(df', n + 1, "Category") = Str(pending.category)
          /\ Cell(df', n + 1, "Description") = Str(pending.description)
          /\ \E a \in AmountInputs :
               float(a).ok /\ Cell(df', n + 1, "Amount") = Float(float(a).v)]_vars

(* an add has completed on a table that held a record, and the new record  *)
(* holds the current date for a blank input and f for the input "f "       *)
C3_Witness ==
  /\ pc = "menu"
  /\ out.msg = "Expense added successfully!"
  /\ Len(df.rows) = 2
  /\ Cell(df, 2, "Date") = Str(Today)
  /\ Cell(df, 2, "Category") = Str(<<102>>)

(* C4: saving the table and loading it gives the table back, and loading   *)
(* the file and saving it gives the file back.                             *)
C4_RoundTrip ==
  pc = "menu" =>
    /\ load_expenses(save_expenses(df)) = df
    /\ file.exists => save_expenses(load_expenses(file)) = file

(* C5: on a table that is not empty and whose dates parse, the category    *)
(* totals, the month totals and the amounts have the same sum.             *)
C5_TotalsPartition ==
  (pc = "menu" /\ ~empty(df) /\ ~monthly_summary(df, strictDates).raised) =>
    LET all == SumAt(Column(df, "Amount"), 1..Len(df.rows))
    IN /\ SumTotals(monthly_summary(df, strictDates).out.totals) = all
       /\ SumTotals(plot_by_category(df).out.totals) = all

(* C6: the category summary shown has one group per distinct Category      *)
(* text of the table (texts differing in case are different groups), each  *)
(* group's total is the sum of the Amounts of the records of exactly that  *)
(* Category, and the totals fall from each group to the next.              *)
C6_CategorySorted ==
  out.msg = "Expenses by Category" =>
    LET t  == out.totals
        ks == Column(df, "Category")
        am == Column(df, "Amount")
    IN /\ \A i \in 1..Len(t) - 1 : t[i].total >= t[i + 1].total
       /\ \A i, j \in 1..Len(t) : t[i].key = t[j].key => i = j
       /\ {t[i].key : i \in 1..Len(t)} = {ks[r] : r \in {q \in DOMAIN ks : ks[q].t = "str"}}
       /\ \A i \in 1..Len(t) :
            t[i].total = SumAt(am, {r \in DOMAIN ks : ks[r] = t[i].key})

(* a category summary of two groups is shown whose larger total belongs to *)
(* the group whose name sorts last, f before F                             *)
C6_Witness ==
  /\ out.msg = "Expenses by Category"
  /\ Len(out.totals) = 2
  /\ out.totals[1].key = Str(<<102>>)
  /\ out.totals[2].key = Str(<<70>>)
  /\ out.totals[1].total > out.totals[2].total

(* what the three summaries put on the screen *)
SummaryShown ==
  {"Monthly Spending", "Expenses by Category", "Daily Expense Trend",
   "No data available for summary.", "No data to plot.", "ValueError"}

(* C7: a summary run from the menu changes the result of no summary run    *)
(* after it: what the monthly, the category and the daily summary show on  *)
(* the table it leaves is what they show on the table it found, so that    *)
(* two runs with no add between them show the same, in any interleaving.   *)
(* (Where the run left the table untouched there is nothing to compare.)   *)
C7_SummariesIdempotent ==
  [][(pc = "menu" /\ out'.msg \in SummaryShown) =>
       \/ df' = df
       \/ \A k \in {3, 4, 5} :
            Run(k, df', strictDates).out = Run(k, df, strictDates).out]_vars

(* a daily summary is shown for a table of two records that a monthly      *)
(* summary has rewritten since the last add                                *)
C7_Witness ==
  /\ pc = "menu"
  /\ out.msg = "Daily Expense Trend"
  /\ Len(df.rows) = 2
  /\ HasCol(df, "YearMonth")
  /\ \A r \in 1..Len(df.rows) : Cell(df, r, "YearMonth").t = "period"

(* C8: while the amount prompt is open the program does not end; a         *)
(* rejected amount leaves the table, the file and the collected fields as  *)
(* they were and the prompt open; the prompt closes only by appending one  *)
(* record whose Amount is the value of a text that is a number, and by     *)
(* saving the table.                                                       *)
C8_AmountLoop ==
  [][pc = "amount" =>
       /\ pc' \in {"amount", "menu"}
       /\ (pc' = "amount" \/ out'.msg = "Please enter a valid number for amount.") =>
            /\ pc' = "amount"
            /\ df' = df /\ file' = file /\ pending' = pending
       /\ pc' = "menu" =>
            /\ Len(df'.rows) = Len(df.rows) + 1
            /\ Cell(df', Len(df'.rows), "Amount") \in {Float(100), Float(0 - 25)}
            /\ file' = save_expenses(df')]_vars

(* an amount has been rejected while a file written earlier exists *)
C8_Witness ==
  /\ pc = "amount"
  /\ out.msg = "Please enter a valid number for amount."
  /\ file.exists
  /\ Len(df.rows) = 1

(* C9: from the menu, an invalid choice comes back to the menu with the    *)
(* table and the file unchanged; on a table whose dates are well formed    *)
(* every choice comes back to the menu (through the amount prompt for an   *)
(* add) or is the exit; and the loop is left only by the exit choice.      *)
C9_MenuLoop ==
  [][/\ pc = "menu" =>
          /\ out'.msg = "Invalid choice, please try again." =>
               pc' = "menu" /\ df' = df /\ file' = file
          /\ WellFormed(df) => pc' \in {"menu", "amount", "exited"}
     /\ (pc # "exited" /\ pc' = "exited") => Exit
     /\ Invalid => pc' = "menu"]_vars

(* an invalid choice has been answered while the table holds two          *)
(* well-formed records, one of them rewritten by a summary                 *)
C9_Witness ==
  /\ pc = "menu"
  /\ out.msg = "Invalid choice, please try again."
  /\ Len(df.rows) = 2
  /\ WellFormed(df)
  /\ Cell(df, 1, "Date").t = "ts"
  /\ Cell(df, 2, "Date").t = "str"

(* C10: after an add has completed the file holds the table, so that a    *)
(* restart shows it again: loading the file gives the records of the table *)
(* in memory, in order, with the same Date, Category, Description and      *)
(* Amount.                                                                 *)
C10_FileTracksTable ==
  out.msg = "Expense added successfully!" =>
    LET l == load_expenses(file) IN
    /\ Len(l.rows) = Len(df.rows)
    /\ \A r \in 1..Len(df.rows) : \A j \in 1..Len(COLUMNS) :
         Cell(l, r, COLUMNS[j]) = Cell(df, r, COLUMNS[j])

(* the part of C10 about the other operations: no step but the completed   *)
(* add writes the file, and the add writes the table it leaves in memory   *)
OnlyAddWrites ==
  [][/\ ~AmountAccepted => file' = file
     /\ AmountAccepted => file' = save_expenses(df')]_vars

====
